---------------------------- MODULE Spec2Model ----------------------------
(***************************************************************************)
(* conflux_py: multi-stream message synchronizer.                          *)
(*                                                                         *)
(* Spec     the Synchronizer of _core.py on its pure-Python fallback path  *)
(*          (_use_ffi = False): push, _pure_python_poll.                   *)
(* SpecFFI  the FFISynchronizer wrapper of _ffi.py over the native engine; *)
(*          the engine itself is not part of the Python sources and is     *)
(*          modelled from section 4 of the specification.                  *)
(***************************************************************************)
EXTENDS Integers, Sequences, FiniteSets, TLC

VARIABLES
    topics,          \* Synchronizer._topics: the registered names, in order
    window_size_ms,  \* SyncConfig.window_size_ms (NoneMs stands for None)
    buffer_size,     \* SyncConfig.buffer_size
    drop_policy,     \* ConfluxConfig.drop_policy (FFI path only)
    buffers,         \* Synchronizer._buffers / the engine's stream buffers
    next_msg,        \* identity of the next payload object handed to push
    message_refs,    \* FFISynchronizer._message_refs (FFI path only)
    last,            \* the last call: its arguments, its result, what it removed
    n_accepted,      \* history: pushes that returned Accepted
    n_discarded,     \* history: messages discarded (advance or overflow)
    n_emitted,       \* history: payloads handed out in groups
    fate,            \* history (fallback path): per accepted payload, how often
                     \* it was emitted (e) and how often discarded (d)
    _topics,         \* ROS2Synchronizer._topics: the topics with a subscription
    _callback        \* ROS2Synchronizer._callback is not None

vars == << topics, window_size_ms, buffer_size, drop_policy, buffers, next_msg,
           message_refs, last, n_accepted, n_discarded, n_emitted, fate,
           _topics, _callback >>

---------------------------------------------------------------------------
(* Bounds of the model *)

MaxTopics == 3

MaxBufferSize == 2

MaxWindowMs == 1

MaxTick == 2

MaxPush == 3

---------------------------------------------------------------------------
(* Program constants *)

NsPerMs == 1000000

NoneMs == -1

REJECT_NEW == 0

DROP_OLDEST == 1

TopicNames == << "a", "b", "c", "d" >>

\* Names that are never registered
UnknownTopics == { "unknown_topic" }

TopicLists == { SubSeq(TopicNames, 1, n) : n \in 1..MaxTopics }

BufferSizes == { MaxBufferSize }

WindowSizes == 0..MaxWindowMs

\* Timestamps the callers push, in nanoseconds
Timestamps == { k * NsPerMs : k \in 0..MaxTick }

---------------------------------------------------------------------------
(* Helpers *)

Range(s) == { s[i] : i \in DOMAIN s }

Abs(x) == IF x < 0 THEN -x ELSE x

SetMin(S) == CHOOSE x \in S : \A y \in S : x <= y

SetMax(S) == CHOOSE x \in S : \A y \in S : x >= y

Tail1(s) == SubSeq(s, 2, Len(s))

\* list.sort(key=lambda x: x[0]): a stable sort by timestamp
RECURSIVE InsertByTs(_, _)
InsertByTs(sorted, e) ==
    IF sorted = << >> THEN << e >>
    ELSE IF sorted[Len(sorted)].ts <= e.ts THEN Append(sorted, e)
    ELSE Append(InsertByTs(SubSeq(sorted, 1, Len(sorted) - 1), e), sorted[Len(sorted)])

RECURSIVE SortByTs(_)
SortByTs(s) ==
    IF s = << >> THEN << >>
    ELSE InsertByTs(SortByTs(SubSeq(s, 1, Len(s) - 1)), s[Len(s)])

\* sorted list of integers, as timestamps.sort() leaves it
RECURSIVE SortInts(_)
SortInts(s) ==
    IF s = << >> THEN << >>
    ELSE LET rest == SortInts(SubSeq(s, 1, Len(s) - 1))
             x == s[Len(s)]
             k == Cardinality({ i \in DOMAIN rest : rest[i] <= x })
         IN  SubSeq(rest, 1, k) \o << x >> \o SubSeq(rest, k + 1, Len(rest))

\* the names of a list in order of first occurrence
RECURSIVE Dedup(_)
Dedup(s) ==
    IF s = << >> THEN << >>
    ELSE LET front == Dedup(SubSeq(s, 1, Len(s) - 1))
         IN  IF s[Len(s)] \in Range(front) THEN front ELSE Append(front, s[Len(s)])

\* dict iteration order of _buffers: the topics in registration order
Keys == Dedup(topics)

NoGroup == [ messages |-> << >>, timestamp_ns |-> -1 ]

NoCall == [ op |-> "new", topic |-> "", ts |-> 0, msg |-> -1, ret |-> "ok",
            value |-> -1, groups |-> << >>, stop |-> << >>,
            group |-> NoGroup, popped |-> << >>, dropped |-> << >> ]

\* fate after the payload msg was accepted by push
Created(f, msg) ==
    [ i \in DOMAIN f \cup { msg } |-> IF i = msg THEN [ e |-> 0, d |-> 0 ] ELSE f[i] ]

\* fate after a call handed out the groups and discarded the messages dropped
Destroyed(f, groups, dropped) ==
    [ i \in DOMAIN f |->
        [ e |-> f[i].e + Cardinality({ p \in (DOMAIN groups) \X Range(topics) :
                                         groups[p[1]].messages[p[2]] = i }),
          d |-> f[i].d + Cardinality({ k \in DOMAIN dropped : dropped[k].msg = i }) ] ]

---------------------------------------------------------------------------
(* Synchronizer, pure-Python fallback (_core.py) *)

\* Synchronizer.__init__ + _pure_python_init
Init ==
    /\ topics \in TopicLists
    /\ window_size_ms \in WindowSizes \cup { NoneMs }
    /\ buffer_size \in BufferSizes
    /\ drop_policy = REJECT_NEW
    /\ buffers = [ t \in Range(topics) |-> << >> ]
    /\ next_msg = 0
    /\ message_refs = << >>
    /\ last = NoCall
    /\ n_accepted = 0
    /\ n_discarded = 0
    /\ n_emitted = 0
    /\ fate = << >>
    /\ _topics = << >>
    /\ _callback = FALSE

max_buffer == buffer_size

\* len(buffer) >= self._max_buffer, compared one too late
BufferFullOffByOne(buffer) == Len(buffer) > max_buffer

\* len(buffer) >= self._max_buffer
BufferFull(buffer) == Len(buffer) >= max_buffer

\* the buffer after buffer.append((timestamp_ns, message)), order not restored
AppendUnsorted(buffer, ts, msg) == Append(buffer, [ ts |-> ts, msg |-> msg ])

\* the buffer after an insertion that keeps the order but puts the new message
\* in front of the buffered messages of equal timestamp
AppendSortedUnstable(buffer, ts, msg) ==
    LET k == Cardinality({ i \in DOMAIN buffer : buffer[i].ts < ts })
    IN  SubSeq(buffer, 1, k) \o << [ ts |-> ts, msg |-> msg ] >>
            \o SubSeq(buffer, k + 1, Len(buffer))

\* the buffer after buffer.append((timestamp_ns, message)); buffer.sort(...)
AppendSorted(buffer, ts, msg) == SortByTs(Append(buffer, [ ts |-> ts, msg |-> msg ]))

\* push, unknown topic, with the registry test left out: the call is refused
\* like a full buffer
PushUnknownReturnsFalse(topic) ==
    /\ topic \notin Range(topics)
    /\ next_msg < MaxPush
    /\ last' = [ NoCall EXCEPT !.op = "push", !.topic = topic, !.ret = "False" ]
    /\ UNCHANGED << _topics, _callback, fate, topics, window_size_ms, buffer_size, drop_policy, buffers,
                    next_msg, message_refs, n_accepted, n_discarded, n_emitted >>

\* push, unknown topic: raise KeyError
PushUnknown(topic) ==
    /\ topic \notin Range(topics)
    /\ next_msg < MaxPush
    /\ last' = [ NoCall EXCEPT !.op = "push", !.topic = topic, !.ret = "KeyError" ]
    /\ UNCHANGED << _topics, _callback, fate, topics, window_size_ms, buffer_size, drop_policy, buffers,
                    next_msg, message_refs, n_accepted, n_discarded, n_emitted >>

\* push, negative timestamp, with the sign test left out: the message is stored
PushNegativeStored(topic, ts) ==
    /\ topic \in Range(topics)
    /\ ts < 0
    /\ next_msg < MaxPush
    /\ buffers' = [ buffers EXCEPT ![topic] = AppendSorted(@, ts, next_msg) ]
    /\ last' = [ NoCall EXCEPT !.op = "push", !.topic = topic, !.ts = ts,
                               !.msg = next_msg, !.ret = "True" ]
    /\ UNCHANGED << _topics, _callback, fate, topics, window_size_ms, buffer_size, drop_policy,
                    next_msg, message_refs, n_accepted, n_discarded, n_emitted >>

\* push, negative timestamp: raise ValueError
PushNegative(topic, ts) ==
    /\ topic \in Range(topics)
    /\ ts < 0
    /\ next_msg < MaxPush
    /\ last' = [ NoCall EXCEPT !.op = "push", !.topic = topic, !.ts = ts,
                               !.ret = "ValueError" ]
    /\ UNCHANGED << _topics, _callback, fate, topics, window_size_ms, buffer_size, drop_policy, buffers,
                    next_msg, message_refs, n_accepted, n_discarded, n_emitted >>

\* the buffers after an append to a list that every topic shares
AppendedToAll(bufs, topic, ts, msg) ==
    [ t \in DOMAIN bufs |-> AppendSorted(bufs[t], ts, msg) ]

\* the buffers after buffer = self._buffers[topic]; buffer.append; buffer.sort
Appended(bufs, topic, ts, msg) ==
    [ bufs EXCEPT ![topic] = AppendSorted(@, ts, msg) ]

\* push with one capacity counted over all topics together
pushSharedCapacity(bufs, topic, ts, msg) ==
    IF Cardinality(UNION { { << t, i >> : i \in DOMAIN bufs[t] } : t \in DOMAIN bufs })
           >= max_buffer
    THEN [ ret |-> "False", buffers |-> bufs ]
    ELSE [ ret |-> "True", buffers |-> Appended(bufs, topic, ts, msg) ]

\* push on the fallback path, as a function of the buffers: reject when full,
\* else append and sort
push(bufs, topic, ts, msg) ==
    IF BufferFull(bufs[topic])
    THEN [ ret |-> "False", buffers |-> bufs ]
    ELSE [ ret |-> "True", buffers |-> Appended(bufs, topic, ts, msg) ]

\* Synchronizer.push on the fallback path, registered topic, timestamp >= 0
Push(topic, ts) ==
    /\ topic \in Range(topics)
    /\ ts >= 0
    /\ \E r \in { push(buffers, topic, ts, next_msg) } :
           /\ r.ret = "True" => next_msg < MaxPush
           /\ buffers' = r.buffers
           /\ next_msg' = IF r.ret = "True" THEN next_msg + 1 ELSE next_msg
           /\ n_accepted' = IF r.ret = "True" THEN n_accepted + 1 ELSE n_accepted
           /\ fate' = IF r.ret = "True" THEN Created(fate, next_msg) ELSE fate
           /\ last' = [ NoCall EXCEPT !.op = "push", !.topic = topic, !.ts = ts,
                                      !.msg = next_msg, !.ret = r.ret ]
    /\ UNCHANGED << _topics, _callback, topics, window_size_ms, buffer_size, drop_policy, message_refs,
                    n_discarded, n_emitted >>

\* buf.pop() in place of buf.pop(0): the newest element leaves
PopBack(buf) == SubSeq(buf, 1, Len(buf) - 1)

\* buf.pop(0) run twice
PopFrontTwice(buf) == SubSeq(buf, 3, Len(buf))

\* the buffer after buf.pop(0)
PopFront(buf) == Tail1(buf)

\* oldest = {topic: buf[0]}
oldest(bufs) == [ t \in DOMAIN bufs |-> bufs[t][1] ]

\* timestamps.sort(); ref_ts = timestamps[len(timestamps) // 2]
ref_ts(bufs) ==
    LET timestamps == SortInts([ i \in 1..Len(Keys) |-> oldest(bufs)[Keys[i]].ts ])
    IN  timestamps[(Len(timestamps) \div 2) + 1]

window_ns == window_size_ms * NsPerMs

all_within_window(bufs) ==
    \A t \in DOMAIN bufs : Abs(oldest(bufs)[t].ts - ref_ts(bufs)) <= window_ns

\* min(oldest.keys(), key=...): the first key, in dict order, of minimal timestamp
oldest_topic(bufs) ==
    LET m == SetMin({ oldest(bufs)[t].ts : t \in DOMAIN bufs })
        i == SetMin({ j \in 1..Len(Keys) : oldest(bufs)[Keys[j]].ts = m })
    IN  Keys[i]

\* any(len(buf) == 0 for buf in self._buffers.values())
any_empty(bufs) == \E t \in DOMAIN bufs : Len(bufs[t]) = 0

\* The outcome of one poll: what it returns or raises, and the buffers it leaves
NoPoll(bufs) ==
    [ ret |-> "None", buffers |-> bufs, group |-> NoGroup, popped |-> << >>,
      dropped |-> << >>, topic |-> "" ]

\* poll with an empty buffer, the emptiness test left out: buf[0] raises
PollEmptyIndexError(bufs) == [ NoPoll(bufs) EXCEPT !.ret = "IndexError" ]

\* poll with an empty buffer: return None
PollEmpty(bufs) == NoPoll(bufs)

\* _pure_python_poll, as a function of the buffers
poll(bufs) ==
    IF any_empty(bufs)
    THEN PollEmpty(bufs)
    ELSE IF window_size_ms = NoneMs
    THEN \* None * 1_000_000 raises TypeError before any buffer is touched
         [ NoPoll(bufs) EXCEPT !.ret = "TypeError" ]
    ELSE IF all_within_window(bufs)
    THEN [ NoPoll(bufs) EXCEPT
             !.ret = "group",
             !.buffers = [ t \in DOMAIN bufs |-> PopFront(bufs[t]) ],
             !.group = [ messages |-> [ t \in DOMAIN bufs |-> oldest(bufs)[t].msg ],
                         timestamp_ns |-> SetMin({ oldest(bufs)[t].ts : t \in DOMAIN bufs }) ],
             !.popped = oldest(bufs) ]
    ELSE [ NoPoll(bufs) EXCEPT
             !.buffers = [ bufs EXCEPT ![oldest_topic(bufs)] = PopFront(@) ],
             !.topic = oldest_topic(bufs),
             !.dropped = << oldest(bufs)[oldest_topic(bufs)] >> ]

\* Synchronizer.poll on the fallback path
Poll ==
    /\ \E r \in { poll(buffers) } :
           /\ buffers' = r.buffers
           /\ last' = [ NoCall EXCEPT !.op = "poll", !.ret = r.ret, !.topic = r.topic,
                                      !.group = r.group, !.popped = r.popped,
                                      !.dropped = r.dropped ]
           /\ n_emitted' = n_emitted + Cardinality(DOMAIN r.group.messages)
           /\ n_discarded' = n_discarded + Len(r.dropped)
           /\ fate' = Destroyed(fate, IF r.ret = "group" THEN << r.group >> ELSE << >>,
                                 r.dropped)
    /\ UNCHANGED << _topics, _callback, topics, window_size_ms, buffer_size, drop_policy, next_msg,
                    message_refs, n_accepted >>

\* The sign test of push comes after the registry test and reads no buffer:
\* the negative timestamp is tried on the first registered topic
Next ==
    \/ \E t \in UnknownTopics : PushUnknown(t)
    \/ \E t \in { Head(topics) } : PushNegative(t, -1)
    \/ \E t \in Range(TopicNames), ts \in Timestamps : Push(t, ts)
    \/ Poll

Spec == Init /\ [][Next]_vars

---------------------------------------------------------------------------
(* Construction (Synchronizer.__init__), with every argument a caller can  *)
(* pass: a failed construction leaves no Synchronizer (topics = << >>).    *)

\* Topic lists a caller may pass, the ill-formed ones included
CtorTopicLists ==
    TopicLists \cup { << >>, << "" >>, << "a", "a" >>, << "a", "" >> }

CtorBufferSizes == 1..MaxBufferSize

\* a Synchronizer object exists
Constructed == topics # << >>

\* Synchronizer.topic_count
topic_count == Len(topics)

\* Synchronizer.__init__: only the empty topic list raises ValueError
InitNew ==
    \E tl \in CtorTopicLists :
        /\ window_size_ms \in WindowSizes \cup { NoneMs }
        /\ buffer_size \in CtorBufferSizes
        /\ drop_policy = REJECT_NEW
        /\ IF tl = << >>
           THEN /\ topics = << >>
                /\ buffers = << >>
                /\ last = [ NoCall EXCEPT !.ret = "ValueError" ]
           ELSE /\ topics = tl
                /\ buffers = [ t \in Range(tl) |-> << >> ]
                /\ last = NoCall
        /\ next_msg = 0
        /\ message_refs = << >>
        /\ n_accepted = 0
        /\ n_discarded = 0
        /\ n_emitted = 0
        /\ fate = << >>
        /\ _topics = << >>
        /\ _callback = FALSE

NextNew ==
    \/ Constructed /\ \E t \in UnknownTopics : PushUnknown(t)
    \/ Constructed /\ \E t \in Range(TopicNames) \cup { "" } : PushNegative(t, -1)
    \/ Constructed /\ \E t \in Range(TopicNames) \cup { "" }, ts \in Timestamps : Push(t, ts)
    \/ Constructed /\ Poll

SpecNew == InitNew /\ [][NextNew]_vars

---------------------------------------------------------------------------
(* The queries of the fallback: is_ready, is_empty, buffer_len *)

\* all(len(buf) >= 2 ...) with the threshold one too low
is_ready_one == \A t \in Range(topics) : Len(buffers[t]) >= 1

\* all(len(buf) >= 2 for buf in self._buffers.values())
is_ready == \A t \in Range(topics) : Len(buffers[t]) >= 2

\* any(len(buf) == 0 for buf in self._buffers.values())
is_empty == \E t \in Range(topics) : Len(buffers[t]) = 0

\* len(self._buffers.get(topic, []))
buffer_len(topic) == IF topic \in DOMAIN buffers THEN Len(buffers[topic]) ELSE 0

Bool(b) == IF b THEN "True" ELSE "False"

IsReady ==
    /\ last' = [ NoCall EXCEPT !.op = "is_ready", !.ret = Bool(is_ready) ]
    /\ UNCHANGED << _topics, _callback, fate, topics, window_size_ms, buffer_size, drop_policy, buffers,
                    next_msg, message_refs, n_accepted, n_discarded, n_emitted >>

IsEmpty ==
    /\ last' = [ NoCall EXCEPT !.op = "is_empty", !.ret = Bool(is_empty) ]
    /\ UNCHANGED << _topics, _callback, fate, topics, window_size_ms, buffer_size, drop_policy, buffers,
                    next_msg, message_refs, n_accepted, n_discarded, n_emitted >>

BufferLen(topic) ==
    /\ last' = [ NoCall EXCEPT !.op = "buffer_len", !.topic = topic,
                               !.ret = "int", !.value = buffer_len(topic) ]
    /\ UNCHANGED << _topics, _callback, fate, topics, window_size_ms, buffer_size, drop_policy, buffers,
                    next_msg, message_refs, n_accepted, n_discarded, n_emitted >>

NextQuery ==
    \/ \E t \in UnknownTopics : PushUnknown(t)
    \/ \E t \in { Head(topics) } : PushNegative(t, -1)
    \/ \E t \in Range(TopicNames), ts \in Timestamps : Push(t, ts)
    \/ Poll
    \/ IsReady
    \/ IsEmpty
    \/ \E t \in Range(topics) \cup UnknownTopics : BufferLen(t)

\* The queries read buffer lengths only; one finite window is enough to reach
\* every combination of lengths by pushes, emissions and discards
InitQuery == Init /\ window_size_ms = MaxWindowMs

SpecQuery == InitQuery /\ [][NextQuery]_vars

---------------------------------------------------------------------------
(* Synchronizer.drain: poll until the first None *)

\* the while loop of drain, as a function of the buffers: the groups
\* collected, the buffers the last poll saw (stop) and the buffers it left
RECURSIVE drain(_)
drain(bufs) ==
    LET r == poll(bufs)
    IN  IF r.ret = "group"
        THEN LET rest == drain(r.buffers)
             IN  [ rest EXCEPT !.groups = << r.group >> \o @ ]
        ELSE [ ret |-> IF r.ret = "None" THEN "list" ELSE r.ret,
               groups |-> << >>,
               stop |-> bufs,
               buffers |-> r.buffers,
               dropped |-> r.dropped,
               topic |-> r.topic ]

\* Synchronizer.drain: an exception of poll leaves drain without a list
Drain ==
    /\ \E d \in { drain(buffers) } :
           /\ buffers' = d.buffers
           /\ last' = [ NoCall EXCEPT
                          !.op = "drain", !.ret = d.ret, !.topic = d.topic,
                          !.groups = IF d.ret = "list" THEN d.groups ELSE << >>,
                          !.stop = d.stop,
                          !.dropped = d.dropped ]
           /\ n_emitted' = n_emitted + Len(d.groups) * Cardinality(DOMAIN buffers)
           /\ n_discarded' = n_discarded + Len(d.dropped)
           /\ fate' = Destroyed(fate, d.groups, d.dropped)
    /\ UNCHANGED << _topics, _callback, topics, window_size_ms, buffer_size, drop_policy, next_msg,
                    message_refs, n_accepted >>

NextDrain ==
    \/ \E t \in UnknownTopics : PushUnknown(t)
    \/ \E t \in { Head(topics) } : PushNegative(t, -1)
    \/ \E t \in Range(TopicNames), ts \in Timestamps : Push(t, ts)
    \/ Poll
    \/ Drain

SpecDrain == Init /\ [][NextDrain]_vars

---------------------------------------------------------------------------
(* The native engine behind the foreign-function boundary.  Its code is    *)
(* not among the Python sources; it is modelled from sections 4.2, 4.3 and *)
(* 4.5 of the specification.                                               *)

OK == 0

INVALID_ARGUMENT == 1

BUFFER_FULL == 2

KEY_NOT_FOUND == 3

NULL_POINTER == 4

INTERNAL_ERROR == 5

\* ConfluxConfig.window_size_ms as the wrapper fills it in: None becomes 0
ConfigWindowMs == IF window_size_ms = NoneMs THEN 0 ELSE window_size_ms

\* section 4.3: window 0 is the infinite window, otherwise milliseconds in ns
EngineWithinWindow(spread) == ConfigWindowMs = 0 \/ spread <= ConfigWindowMs * NsPerMs

\* section 4.2 (3a): stable insertion by timestamp, arrival order breaking ties
EngineInsert(buffer, ts, handle) == InsertByTs(buffer, [ ts |-> ts, msg |-> handle ])

\* conflux_push_message: [code, buffers, evicted]
EnginePush(bufs, key, ts, handle) ==
    IF key \notin Range(topics)
    THEN [ code |-> KEY_NOT_FOUND, buffers |-> bufs, evicted |-> << >> ]
    ELSE IF ts < 0
    THEN [ code |-> INVALID_ARGUMENT, buffers |-> bufs, evicted |-> << >> ]
    ELSE IF Len(bufs[key]) < buffer_size
    THEN [ code |-> OK,
           buffers |-> [ bufs EXCEPT ![key] = EngineInsert(@, ts, handle) ],
           evicted |-> << >> ]
    ELSE IF drop_policy = DROP_OLDEST
    THEN [ code |-> OK,
           buffers |-> [ bufs EXCEPT ![key] = EngineInsert(Tail1(@), ts, handle) ],
           evicted |-> << Head(bufs[key]) >> ]
    ELSE [ code |-> BUFFER_FULL, buffers |-> bufs, evicted |-> << >> ]

\* section 4.3, step 2: i_min = argmin of the head timestamps, lowest index first
EngineMinIndex(bufs) ==
    LET m == SetMin({ bufs[t][1].ts : t \in Range(topics) })
    IN  SetMin({ j \in 1..Len(topics) : bufs[topics[j]][1].ts = m })

\* conflux_poll: [result, members (the callback's calls, in topic order),
\* buffers, discarded]
EnginePoll(bufs) ==
    IF \E t \in Range(topics) : Len(bufs[t]) = 0
    THEN [ result |-> 0, members |-> << >>, buffers |-> bufs, discarded |-> << >> ]
    ELSE LET heads == { bufs[t][1].ts : t \in Range(topics) }
         IN  IF EngineWithinWindow(SetMax(heads) - SetMin(heads))
             THEN [ result |-> 1,
                    members |-> [ i \in 1..Len(topics) |->
                                    [ key |-> topics[i], ts |-> bufs[topics[i]][1].ts,
                                      user_data |-> bufs[topics[i]][1].msg ] ],
                    buffers |-> [ t \in Range(topics) |-> Tail1(bufs[t]) ],
                    discarded |-> << >> ]
             ELSE [ result |-> 0, members |-> << >>,
                    buffers |-> [ bufs EXCEPT ![topics[EngineMinIndex(bufs)]] = Tail1(@) ],
                    discarded |-> << bufs[topics[EngineMinIndex(bufs)]][1] >> ]

---------------------------------------------------------------------------
(* FFISynchronizer (_ffi.py) *)

\* the message object the caller hands over with the k-th push
Message(k) == [ obj |-> k ]

\* a NULL user_data reaches the Python callback as None
NullUserData == -1

\* ctypes.c_void_p(msg_id) as the callback sees it again: 0 is the NULL pointer
CallbackUserData(handle) == IF handle = 0 THEN NullUserData ELSE handle

DropPolicies == { REJECT_NEW, DROP_OLDEST }

\* FFISynchronizer.__init__
InitFFI ==
    /\ topics \in TopicLists
    /\ window_size_ms \in WindowSizes \cup { NoneMs }
    /\ buffer_size \in BufferSizes
    /\ drop_policy \in DropPolicies
    /\ buffers = [ t \in Range(topics) |-> << >> ]
    /\ next_msg = 0
    /\ message_refs = << >>
    /\ last = NoCall
    /\ n_accepted = 0
    /\ n_discarded = 0
    /\ n_emitted = 0
    /\ fate = << >>
    /\ _topics = << >>
    /\ _callback = FALSE

\* the result code of conflux_push_message compared against the wrong constant
FFIPushReturnWrongCode(result) ==
    IF result = KEY_NOT_FOUND THEN "KeyError"
    ELSE IF result = BUFFER_FULL THEN "False"
    ELSE IF result # INVALID_ARGUMENT THEN "False"
    ELSE "True"

\* what FFISynchronizer.push makes of the result code
FFIPushReturn(result) ==
    IF result = KEY_NOT_FOUND THEN "KeyError"
    ELSE IF result = BUFFER_FULL THEN "False"
    ELSE IF result # OK THEN "False"
    ELSE "True"

\* dict with one key removed / added
DictDel(d, k) == [ x \in DOMAIN d \ { k } |-> d[x] ]

DictSet(d, k, v) == [ x \in DOMAIN d \cup { k } |-> IF x = k THEN v ELSE d[x] ]

\* FFISynchronizer.push
FFIPush(topic, ts) ==
    /\ next_msg < MaxPush
    /\ LET msg_id == next_msg
           r == EnginePush(buffers, topic, ts, msg_id)
           ret == FFIPushReturn(r.code)
       IN  /\ next_msg' = next_msg + 1
           /\ message_refs' = IF ret = "True"
                              THEN DictSet(message_refs, msg_id, Message(msg_id))
                              ELSE DictDel(DictSet(message_refs, msg_id, Message(msg_id)), msg_id)
           /\ buffers' = r.buffers
           /\ n_accepted' = IF ret = "True" THEN n_accepted + 1 ELSE n_accepted
           /\ n_discarded' = n_discarded + Len(r.evicted)
           /\ last' = [ NoCall EXCEPT !.op = "push", !.topic = topic, !.ts = ts,
                                      !.msg = msg_id, !.ret = ret, !.dropped = r.evicted ]
    /\ UNCHANGED << _topics, _callback, fate, topics, window_size_ms, buffer_size, drop_policy, n_emitted >>

\* the callback of FFISynchronizer.poll run over the engine's members:
\* [result_group, msg_ids_to_remove]
RECURSIVE RunCallback(_, _)
RunCallback(members, acc) ==
    IF members = << >> THEN acc
    ELSE LET m == Head(members)
             msg_id == CallbackUserData(m.user_data)
         IN  IF msg_id \in DOMAIN message_refs
             THEN RunCallback(Tail(members),
                    [ result_group |-> DictSet(acc.result_group, m.key,
                                               [ ts |-> m.ts, msg |-> message_refs[msg_id] ]),
                      msg_ids_to_remove |-> Append(acc.msg_ids_to_remove, msg_id) ])
             ELSE RunCallback(Tail(members), acc)

\* FFISynchronizer.poll
FFIPoll ==
    /\ LET r == EnginePoll(buffers)
           cb == RunCallback(r.members, [ result_group |-> << >>, msg_ids_to_remove |-> << >> ])
       IN  /\ buffers' = r.buffers
           /\ message_refs' = [ x \in DOMAIN message_refs \ Range(cb.msg_ids_to_remove)
                                  |-> message_refs[x] ]
           /\ n_discarded' = n_discarded + Len(r.discarded)
           /\ n_emitted' = n_emitted + Cardinality(DOMAIN cb.result_group)
           /\ last' = IF r.result = 1
                      THEN [ NoCall EXCEPT !.op = "poll", !.ret = "group",
                                           !.group = [ messages |-> cb.result_group,
                                                       timestamp_ns |-> -1 ] ]
                      ELSE [ NoCall EXCEPT !.op = "poll", !.ret = "None",
                                           !.dropped = r.discarded ]
    /\ UNCHANGED << _topics, _callback, fate, topics, window_size_ms, buffer_size, drop_policy, next_msg, n_accepted >>

NextFFI ==
    \/ \E t \in Range(TopicNames) \cup UnknownTopics, ts \in Timestamps \cup { -1 } :
          FFIPush(t, ts)
    \/ FFIPoll

SpecFFI == InitFFI /\ [][NextFFI]_vars

---------------------------------------------------------------------------
(* ROS2Synchronizer (synchronizer.py): the subscriptions of a node feeding  *)
(* one Synchronizer.  self._sync is None while topics = << >>.              *)

\* ROS2Synchronizer.__init__: no topics, no callback, no Synchronizer
InitROS2 ==
    /\ topics = << >>
    /\ window_size_ms \in WindowSizes \cup { NoneMs }
    /\ buffer_size \in BufferSizes
    /\ drop_policy = REJECT_NEW
    /\ buffers = << >>
    /\ next_msg = 0
    /\ message_refs = << >>
    /\ last = NoCall
    /\ n_accepted = 0
    /\ n_discarded = 0
    /\ n_emitted = 0
    /\ fate = << >>
    /\ _topics = << >>
    /\ _callback = FALSE

\* add_subscription: self._topics.append(topic); create the subscription
AddSubscription(topic) ==
    /\ Len(_topics) < MaxTopics
    /\ _topics' = Append(_topics, topic)
    /\ last' = [ NoCall EXCEPT !.op = "add_subscription", !.topic = topic ]
    /\ UNCHANGED << _callback, fate, topics, window_size_ms, buffer_size, drop_policy,
                    buffers, next_msg, message_refs, n_accepted, n_discarded,
                    n_emitted >>

\* on_synchronized: self._callback = callback; if self._sync is None and
\* self._topics: self._sync = _Synchronizer(self._topics, self._config)
OnSynchronized ==
    /\ _callback' = TRUE
    /\ IF ~Constructed /\ _topics # << >>
       THEN /\ topics' = _topics
            /\ buffers' = [ t \in Range(_topics) |-> << >> ]
       ELSE UNCHANGED << topics, buffers >>
    /\ last' = [ NoCall EXCEPT !.op = "on_synchronized" ]
    /\ UNCHANGED << _topics, fate, window_size_ms, buffer_size, drop_policy, next_msg,
                    message_refs, n_accepted, n_discarded, n_emitted >>

\* msg_callback of the subscription on topic, called by the node for a message
\* stamped ts: nothing while self._sync is None; otherwise self._sync.push,
\* then _poll (for group in self._sync: self._callback(group))
MsgCallback(topic, ts) ==
    /\ topic \in Range(_topics)
    /\ IF ~Constructed
       THEN /\ last' = [ NoCall EXCEPT !.op = "msg_callback", !.topic = topic,
                                       !.ts = ts, !.ret = "ignored" ]
            /\ UNCHANGED << buffers, next_msg, n_accepted, n_discarded, n_emitted, fate >>
       ELSE IF topic \notin Range(topics)
       THEN /\ last' = [ NoCall EXCEPT !.op = "msg_callback", !.topic = topic,
                                       !.ts = ts, !.ret = "KeyError" ]
            /\ UNCHANGED << buffers, next_msg, n_accepted, n_discarded, n_emitted, fate >>
       ELSE \E r \in { push(buffers, topic, ts, next_msg) } :
            \E d \in { IF _callback THEN drain(r.buffers)
                       ELSE [ ret |-> "list", groups |-> << >>, stop |-> r.buffers,
                              buffers |-> r.buffers, dropped |-> << >>, topic |-> "" ] } :
               /\ r.ret = "True" => next_msg < MaxPush
               /\ buffers' = d.buffers
               /\ next_msg' = IF r.ret = "True" THEN next_msg + 1 ELSE next_msg
               /\ n_accepted' = IF r.ret = "True" THEN n_accepted + 1 ELSE n_accepted
               /\ n_emitted' = n_emitted + Len(d.groups) * Cardinality(DOMAIN buffers)
               /\ n_discarded' = n_discarded + Len(d.dropped)
               /\ fate' = Destroyed(IF r.ret = "True" THEN Created(fate, next_msg) ELSE fate,
                                    d.groups, d.dropped)
               /\ last' = [ NoCall EXCEPT
                              !.op = "msg_callback", !.topic = topic, !.ts = ts,
                              !.msg = next_msg,
                              !.ret = IF d.ret = "list" THEN r.ret ELSE d.ret,
                              !.groups = d.groups, !.stop = d.stop,
                              !.dropped = d.dropped ]
    /\ UNCHANGED << _topics, _callback, topics, window_size_ms, buffer_size, drop_policy,
                    message_refs >>

\* Topics the node subscribes to
SubscriptionTopics == { TopicNames[i] : i \in 1..MaxTopics }

NextROS2 ==
    \/ \E t \in SubscriptionTopics : AddSubscription(t)
    \/ OnSynchronized
    \/ \E t \in SubscriptionTopics, ts \in Timestamps : MsgCallback(t, ts)

SpecROS2 == InitROS2 /\ [][NextROS2]_vars

---------------------------------------------------------------------------
(* Vocabulary of the properties *)

\* The window of the configuration: 0 or None select the infinite window
WindowInfinite == window_size_ms = 0 \/ window_size_ms = NoneMs

window_size_ns == window_size_ms * 1000000

Spread(S) == SetMax(S) - SetMin(S)

WithinWindow(S) == WindowInfinite \/ Spread(S) <= window_size_ns

Registered == Range(topics)

AllNonEmpty(bufs) == \A t \in Registered : Len(bufs[t]) > 0

Total(bufs) == LET RECURSIVE Sum(_)
                   Sum(i) == IF i = 0 THEN 0 ELSE Len(bufs[topics[i]]) + Sum(i - 1)
               IN  Sum(Len(topics))

\* One buffered message per stream (an index into every buffer)
Selections(bufs) == [ Registered -> 1..MaxBufferSize ]

\* Some choice of one buffered message per stream lies within the window
MatchExists(bufs) ==
    /\ AllNonEmpty(bufs)
    /\ \E sel \in Selections(bufs) :
          /\ \A t \in Registered : sel[t] <= Len(bufs[t])
          /\ WithinWindow({ bufs[t][sel[t]].ts : t \in Registered })

Emitted == last.op = "poll" /\ last.ret = "group"

Advanced == last.op = "poll" /\ last.ret = "None" /\ last.dropped # << >>

---------------------------------------------------------------------------
(* Properties *)

\* C1: whenever poll returns a group under a finite window, the spread of the
\* group's timestamps (max - min over the members) is at most
\* window_size_ms * 1,000,000 ns.
C1_GroupSpreadWithinWindow ==
    (Emitted /\ ~WindowInfinite) =>
        Spread({ last.popped[t].ts : t \in DOMAIN last.popped }) <= window_size_ns

\* C2: in every reachable state every registered topic holds between 0 and
\* buffer_size buffered messages.
C2_BufferLenBounded ==
    \A t \in Registered : 0 <= Len(buffers[t]) /\ Len(buffers[t]) <= buffer_size

\* a buffer is full and the last push on it was turned away
C2_Witness ==
    /\ last.op = "push" /\ last.ret = "False"
    /\ Len(buffers[last.topic]) = buffer_size

\* C3: every stream buffer's timestamps are non-decreasing from front to back,
\* also after a push whose timestamp is below the back timestamp, and after
\* any poll.
C3_BuffersSorted ==
    \A t \in Registered : \A i \in 1..(Len(buffers[t]) - 1) :
        buffers[t][i].ts <= buffers[t][i + 1].ts

\* the last push was accepted and sits in front of a newer-stamped message
C3_Witness ==
    /\ last.op = "push" /\ last.ret = "True"
    /\ \E i \in 1..(Len(buffers[last.topic]) - 1) :
          /\ buffers[last.topic][i].msg = last.msg
          /\ buffers[last.topic][i + 1].ts > last.ts

\* C4: whenever poll returns a group, the group holds exactly one message for
\* every registered topic, that message is the front element of the topic's
\* buffer immediately before the call, and the call leaves each buffer as it
\* was with exactly that front element removed.
C4_GroupIsFronts ==
    [][ (last'.op = "poll" /\ last'.ret = "group") =>
          /\ DOMAIN last'.group.messages = Registered
          /\ \A t \in Registered :
                /\ Len(buffers[t]) > 0
                /\ last'.group.messages[t] = Head(buffers[t]).msg
                /\ buffers'[t] = Tail(buffers[t]) ]_vars

\* a group was returned while some stream held more than its front
C4_Witness ==
    /\ Emitted
    /\ Cardinality(Registered) >= 2
    /\ \E t \in Registered : Len(buffers[t]) > 0

\* C5: a poll that returns None either found some buffer empty and changed
\* nothing, or reduced the total number of buffered messages by exactly 1.
C5_NoneIsNoopOrOneDiscard ==
    [][ (last'.op = "poll" /\ last'.ret = "None") =>
          \/ (~AllNonEmpty(buffers) /\ buffers' = buffers)
          \/ (AllNonEmpty(buffers) /\ Total(buffers') = Total(buffers) - 1) ]_vars

\* a poll discarded a head and left messages behind
C5_Witness == Advanced /\ Total(buffers) >= 2

C7_RejectedIffFull ==
    [][ (last'.op = "push" /\ last'.ret \in { "True", "False" }) =>
          /\ (last'.ret = "False") <=> (Len(buffers[last'.topic]) = buffer_size)
          /\ (last'.ret = "False") => (buffers' = buffers) ]_vars

\* a push was rejected on a full buffer while another stream had room
C7_Witness ==
    /\ last.op = "push" /\ last.ret = "False"
    /\ Len(buffers[last.topic]) = buffer_size
    /\ \E t \in Registered : Len(buffers[t]) < buffer_size

\* C8: conservation. With K pushes accepted and D messages discarded, the
\* payloads in the buffers plus the payloads handed out in groups are K - D.
C8_Conservation ==
    Total(buffers) + n_emitted = n_accepted - n_discarded

\* a run that accepted, discarded and emitted
C8_Witness == n_accepted >= 3 /\ n_discarded >= 1 /\ n_emitted >= 2

\* C9: with an infinite window (window_size_ms 0 or None) every poll made
\* while all streams are non-empty emits a group of the fronts, however far
\* apart their timestamps are.
C9_InfiniteWindowEmits ==
    [][ (last'.op = "poll" /\ WindowInfinite /\ AllNonEmpty(buffers)) =>
          last'.ret = "group" ]_vars

\* C10: while the buffers hold one message per stream within the window, a
\* poll either returns a group or discards a head and leaves such a
\* selection in the buffers, so that polling alone reaches a group before
\* any stream is emptied by discards.
C10_MatchSurvivesAdvance ==
    [][ (last'.op = "poll" /\ MatchExists(buffers)) =>
          \/ last'.ret = "group"
          \/ (last'.ret = "None" /\ last'.dropped # << >> /\ MatchExists(buffers')) ]_vars

\* The same under the windows the fallback treats as finite and positive
C10_FiniteWindowLemma ==
    [][ (last'.op = "poll" /\ window_size_ms > 0 /\ MatchExists(buffers)) =>
          \/ last'.ret = "group"
          \/ (last'.ret = "None" /\ last'.dropped # << >> /\ MatchExists(buffers')) ]_vars

\* C11: construction with buffer_size < 2 fails with ValueError and produces
\* no Synchronizer, so no Synchronizer has a per-stream capacity below 2.
C11_SmallBufferRejected == Constructed => buffer_size >= 2

\* C12: construction rejects a topic list that is empty, holds an empty name
\* or holds a name twice, so that in every Synchronizer the names are
\* non-empty and distinct (a bijection with the indices) and topic_count is
\* the number of distinct stream buffers.
C12_RegistryIsBijection ==
    Constructed =>
        /\ \A i \in 1..Len(topics) : topics[i] # ""
        /\ \A i, j \in 1..Len(topics) : i # j => topics[i] # topics[j]
        /\ topic_count = Cardinality(DOMAIN buffers)

\* C13: push with a topic name that was not registered at construction raises
\* KeyError and leaves every buffer unchanged, in any state.
C13_UnknownTopicRaises ==
    [][ (last'.op = "push" /\ last'.topic \notin Registered)
            => (last'.ret = "KeyError" /\ buffers' = buffers) ]_vars

\* an unknown-topic push refused while messages are buffered
C13_Witness ==
    /\ last.op = "push"
    /\ last.topic \notin Registered
    /\ last.ret = "KeyError"
    /\ Total(buffers) > 0

\* no buffered message has a negative timestamp
NoNegativeBuffered ==
    \A t \in Registered : \A i \in 1..Len(buffers[t]) : buffers[t][i].ts >= 0

\* C14: push with a negative timestamp on a registered topic raises
\* ValueError and leaves every buffer unchanged, so no buffered message ever
\* has a negative timestamp.
C14_NegativeTimestampRaises ==
    /\ []NoNegativeBuffered
    /\ [][ (last'.op = "push" /\ last'.topic \in Registered /\ last'.ts < 0)
               => (last'.ret = "ValueError" /\ buffers' = buffers) ]_vars

\* a negative-timestamp push refused while messages are buffered
C14_Witness ==
    /\ last.op = "push"
    /\ last.topic \in Registered
    /\ last.ts < 0
    /\ last.ret = "ValueError"
    /\ Total(buffers) > 0

\* C17: whenever at least one buffer is empty, poll returns None without
\* raising and leaves all buffers unchanged (nothing emitted, nothing
\* discarded), so the state is still non-armed and the poll can be repeated
\* with the same result.
C17_PollOnIdleIsNoop ==
    [][ (last'.op = "poll" /\ ~AllNonEmpty(buffers))
            => /\ last'.ret = "None"
               /\ last'.dropped = << >>
               /\ buffers' = buffers
               /\ ~AllNonEmpty(buffers') ]_vars

\* a poll answered None with some, but not all, buffers empty
C17_Witness ==
    /\ last.op = "poll"
    /\ last.ret = "None"
    /\ last.dropped = << >>
    /\ ~AllNonEmpty(buffers)
    /\ Total(buffers) > 0

\* poll answered None with every buffer empty
C17_WitnessAllEmpty ==
    /\ last.op = "poll"
    /\ last.ret = "None"
    /\ Total(buffers) = 0

\* Starvation step: a poll made while all streams are non-empty emits a group
\* or discards exactly one message
StarvationStep ==
    (last'.op = "poll" /\ AllNonEmpty(buffers)) =>
        \/ last'.ret = "group"
        \/ (last'.ret = "None" /\ Total(buffers') = Total(buffers) - 1)

\* C18: with no further pushes, every poll (on a state with all streams
\* non-empty) either emits a group or strictly reduces the total buffered
\* count by one, and every poll removes at least one message, so a polling
\* loop empties some stream after at most Total(buffers) polls.
C18_StarvationGuarantee ==
    [][ StarvationStep
        /\ ((last'.op = "poll" /\ AllNonEmpty(buffers))
               => Total(buffers') < Total(buffers)) ]_vars

\* The same for the windows that are integers (0 included)
C18_IntegerWindowLemma ==
    [][ window_size_ms # NoneMs =>
          /\ StarvationStep
          /\ ((last'.op = "poll" /\ AllNonEmpty(buffers))
                 => Total(buffers') < Total(buffers)) ]_vars

\* Idle = some stream empty, Armed = all streams non-empty
Idle(bufs) == ~AllNonEmpty(bufs)

Armed(bufs) == AllNonEmpty(bufs)

\* Armed is left only by an emitting poll or by an advance that empties a
\* stream
ArmedLeftOnlyByPoll ==
    (Armed(buffers) /\ Idle(buffers')) =>
        /\ last'.op = "poll"
        /\ \/ last'.ret = "group"
           \/ /\ last'.ret = "None"
              /\ last'.dropped # << >>
              /\ Len(buffers'[last'.topic]) = 0

\* Idle is left only by a push into the last empty stream
IdleLeftOnlyByPush ==
    (Idle(buffers) /\ Armed(buffers')) =>
        /\ last'.op = "push"
        /\ last'.ret = "True"
        /\ { t \in Registered : Len(buffers[t]) = 0 } = { last'.topic }

\* C19 as stated: from Armed, a poll that emits a group moves the
\* Synchronizer to Idle; Armed is left only by an emitting poll or by an
\* advance that empties a stream, and Idle is left only by a push into the
\* last empty stream.
C19_EmitMovesToIdle ==
    [][ /\ (Armed(buffers) /\ last'.op = "poll" /\ last'.ret = "group")
               => Idle(buffers')
        /\ ArmedLeftOnlyByPoll
        /\ IdleLeftOnlyByPush ]_vars

\* C19: from Armed, a poll that emits a group moves the Synchronizer to Idle
\* exactly when some stream held a single message, and otherwise leaves it
\* Armed; Armed is left only by an emitting poll or by an advance that
\* empties a stream, and Idle is left only by a push into the last empty
\* stream.
C19_StateMachine ==
    [][ /\ (Armed(buffers) /\ last'.op = "poll" /\ last'.ret = "group")
               => (Idle(buffers') <=> \E t \in Registered : Len(buffers[t]) = 1)
        /\ ArmedLeftOnlyByPoll
        /\ IdleLeftOnlyByPush ]_vars

\* an emitting poll after which every stream still holds a message
C19_Witness == Emitted /\ Armed(buffers)

\* an emitting poll that emptied a stream
C19_WitnessToIdle == Emitted /\ Idle(buffers)

\* an advance that emptied a stream
C19_WitnessAdvanceToIdle == Advanced /\ Len(buffers[last.topic]) = 0

\* a push that armed the Synchronizer
C19_WitnessToArmed ==
    /\ last.op = "push" /\ last.ret = "True"
    /\ Armed(buffers)
    /\ Len(buffers[last.topic]) = 1

\* C15: buffer_len(topic) fails with KeyError when the name is not
\* registered; it never returns a length for an unregistered name.
C15_BufferLenUnknownRaises ==
    (last.op = "buffer_len" /\ last.topic \notin Registered) => last.ret = "KeyError"

\* C16: in every reachable state is_ready() is true if and only if every
\* stream holds at least 2 buffered messages, and is_empty() is true if and
\* only if at least one stream holds 0 messages; neither query changes any
\* buffer.
C16_QueriesExact ==
    [][ /\ last'.op = "is_ready" =>
              /\ last'.ret = "True" <=> \A t \in Registered : Len(buffers[t]) >= 2
              /\ buffers' = buffers
        /\ last'.op = "is_empty" =>
              /\ last'.ret = "True" <=> \E t \in Registered : Len(buffers[t]) = 0
              /\ buffers' = buffers ]_vars

\* is_ready answered True
C16_Witness ==
    /\ last.op = "is_ready" /\ last.ret = "True"
    /\ \A t \in Registered : Len(buffers[t]) >= 2

\* is_ready answered False although no stream is empty
C16_WitnessNotReady ==
    /\ last.op = "is_ready" /\ last.ret = "False"
    /\ AllNonEmpty(buffers)

\* is_empty answered True while messages are buffered
C16_WitnessEmpty ==
    /\ last.op = "is_empty" /\ last.ret = "True"
    /\ Total(buffers) > 0

\* is_empty answered False
C16_WitnessNotEmpty == last.op = "is_empty" /\ last.ret = "False"

\* A group can be emitted from the heads of the buffers: no stream is empty
\* and the heads lie within the window
Emittable(bufs) ==
    /\ AllNonEmpty(bufs)
    /\ WindowInfinite \/ WithinWindow({ bufs[t][1].ts : t \in Registered })

\* The i-th messages of all streams, as a group
GroupAt(bufs, i) ==
    [ messages |-> [ t \in Registered |-> bufs[t][i].msg ],
      timestamp_ns |-> SetMin({ bufs[t][i].ts : t \in Registered }) ]

\* drain returned a list holding, in order, the groups of the first k heads,
\* each within the window, and stopped on heads from which no group can be
\* emitted
DrainedMaximalPrefix ==
    last'.op = "drain" =>
        /\ last'.ret = "list"
        /\ LET k == Len(last'.groups)
           IN  /\ \A t \in Registered : k <= Len(buffers[t])
               /\ \A i \in 1..k :
                     /\ last'.groups[i] = GroupAt(buffers, i)
                     /\ WindowInfinite
                           \/ WithinWindow({ buffers[t][i].ts : t \in Registered })
               /\ last'.stop = [ t \in Registered |->
                                   SubSeq(buffers[t], k + 1, Len(buffers[t])) ]
        /\ ~Emittable(last'.stop)

\* C20: drain() (repeated poll until the first None) returns the maximal
\* prefix of emittable groups: it returns, in order, exactly the groups of
\* the consecutive emitting polls, and it stops only when no group can be
\* emitted from the current heads.
C20_DrainMaximalPrefix == [][ DrainedMaximalPrefix ]_vars

\* The same for positive finite windows and at most two streams
C20_FiniteWindowLemma ==
    [][ (window_size_ms > 0 /\ Len(topics) <= 2) => DrainedMaximalPrefix ]_vars

\* The same for positive finite windows and any number of streams, without
\* the bound on the spread of the returned groups
C20_StopLemma ==
    [][ (window_size_ms > 0 /\ last'.op = "drain") =>
          /\ last'.ret = "list"
          /\ \A i \in 1..Len(last'.groups) : last'.groups[i] = GroupAt(buffers, i)
          /\ ~Emittable(last'.stop) ]_vars

\* a drain that returned two groups
C20_WitnessTwoGroups == last.op = "drain" /\ Len(last.groups) = 2

\* With a single topic: a poll on the non-empty stream emits its front and
\* discards nothing; a drain of k buffered messages returns k groups in
\* buffer (timestamp) order and leaves the stream empty
SingleTopicStep ==
    Len(topics) = 1 =>
        LET t == topics[1]
        IN  /\ (last'.op = "poll" /\ Len(buffers[t]) > 0) =>
                  /\ last'.ret = "group"
                  /\ last'.group = GroupAt(buffers, 1)
                  /\ last'.dropped = << >>
                  /\ buffers'[t] = Tail1(buffers[t])
            /\ last'.op = "drain" =>
                  /\ last'.ret = "list"
                  /\ Len(last'.groups) = Len(buffers[t])
                  /\ \A i \in 1..Len(buffers[t]) : last'.groups[i] = GroupAt(buffers, i)
                  /\ \A i \in 1..(Len(last'.groups) - 1) :
                        last'.groups[i].timestamp_ns <= last'.groups[i + 1].timestamp_ns
                  /\ last'.dropped = << >>
                  /\ buffers'[t] = << >>

\* C21: for a single-topic Synchronizer every poll made while the sole
\* stream is non-empty emits a group containing that stream's front message
\* and never discards; k buffered messages yield exactly k groups in
\* timestamp order followed by None.
C21_SingleTopicAlwaysEmits == [][ SingleTopicStep ]_vars

\* The same for the windows that are integers (0 included)
C21_IntegerWindowLemma == [][ window_size_ms # NoneMs => SingleTopicStep ]_vars

\* a single-topic drain that returned two groups
C21_WitnessDrain == Len(topics) = 1 /\ last.op = "drain" /\ Len(last.groups) = 2

\* the sequence s without its k-th element
Without(s, k) == SubSeq(s, 1, k - 1) \o SubSeq(s, k + 1, Len(s))

\* C22: an accepted push whose timestamp is less than the buffer's back
\* timestamp is inserted at its sorted position, and among messages with
\* equal timestamps the earlier-arrived message stays nearer the front
\* (stable insertion), identically for every stream: the new message stands
\* behind every buffered message of smaller or equal timestamp and in front
\* of every buffered message of greater timestamp, and the others keep their
\* order.
C22_StableSortedInsertion ==
    [][ (last'.op = "push" /\ last'.ret = "True") =>
          LET t == last'.topic
              new == buffers'[t]
              k == CHOOSE i \in DOMAIN new : new[i].msg = last'.msg
          IN  /\ \E i \in DOMAIN new : new[i].msg = last'.msg
              /\ new[k].ts = last'.ts
              /\ \A i \in 1..(k - 1) : new[i].ts <= last'.ts
              /\ \A i \in (k + 1)..Len(new) : new[i].ts > last'.ts
              /\ Without(new, k) = buffers[t] ]_vars

\* a late arrival: the accepted message stands in front of a buffered one
C22_Witness ==
    /\ last.op = "push" /\ last.ret = "True"
    /\ Len(buffers[last.topic]) >= 2
    /\ buffers[last.topic][1].msg = last.msg
    /\ last.topic # Head(topics)

\* a tie: the accepted message stands behind an earlier one of equal timestamp
C22_WitnessTie ==
    /\ last.op = "push" /\ last.ret = "True"
    /\ Len(buffers[last.topic]) >= 2
    /\ buffers[last.topic][2].msg = last.msg
    /\ buffers[last.topic][1].ts = last.ts

\* C25: push on one topic changes only that topic's buffer: after an accepted
\* push on topic t, buffer_len(t) has increased by exactly 1 and the buffer
\* of every other topic is unchanged.
C25_PushFrame ==
    [][ (last'.op = "push" /\ last'.ret = "True") =>
          /\ Len(buffers'[last'.topic]) = Len(buffers[last'.topic]) + 1
          /\ \A u \in Registered \ { last'.topic } : buffers'[u] = buffers[u] ]_vars

\* an accepted push while another topic holds a message
C25_Witness ==
    /\ last.op = "push" /\ last.ret = "True"
    /\ \E u \in Registered \ { last.topic } :
          /\ Len(buffers[u]) > 0
          /\ Len(buffers[u]) # Len(buffers[last.topic])

\* The results of n polls in a row, starting from the buffers bufs
RECURSIVE PollResults(_, _)
PollResults(bufs, n) ==
    IF n = 0 THEN << >>
    ELSE LET r == poll(bufs)
         IN  << [ ret |-> r.ret, group |-> r.group ] >> \o PollResults(r.buffers, n - 1)

\* the buffers before the call recorded in last, when that call was a push
BeforeLastPush ==
    IF last.ret = "True"
    THEN LET buf == buffers[last.topic]
             k == CHOOSE i \in DOMAIN buf : buf[i].msg = last.msg
         IN  [ buffers EXCEPT ![last.topic] = Without(buf, k) ]
    ELSE buffers

\* C28: poll results are independent of the cross-stream insertion order.
\* Two pushes in a row on different topics, made in the other order with the
\* same payloads, get the same two answers and reach the same buffers, hence
\* the same sequence of poll results; any two interleavings of the same
\* per-topic subsequences differ by such exchanges.
C28_InsertionOrderIndependent ==
    [][ ( /\ last.op = "push" /\ last.ret \in { "True", "False" }
          /\ last'.op = "push" /\ last'.ret \in { "True", "False" }
          /\ last.topic # last'.topic )
        => \E first \in { push(BeforeLastPush, last'.topic, last'.ts, last'.msg) } :
           \E second \in { push(first.buffers, last.topic, last.ts, last.msg) } :
               /\ first.ret = last'.ret
               /\ second.ret = last.ret
               /\ second.buffers = buffers'
               /\ PollResults(second.buffers, MaxPush + 1)
                     = PollResults(buffers', MaxPush + 1) ]_vars

\* two accepted pushes in a row on different topics, the later one with the
\* smaller timestamp
C28_Witness ==
    /\ last.op = "push" /\ last.ret = "True"
    /\ \E u \in Registered \ { last.topic } :
          \E i \in DOMAIN buffers[u] :
             /\ buffers[u][i].msg = last.msg - 1
             /\ buffers[u][i].ts > last.ts

\* the number of buffer slots that hold the payload i
Buffered(i) ==
    Cardinality(UNION { { << t, k >> : k \in { j \in DOMAIN buffers[t] : buffers[t][j].msg = i } }
                        : t \in Registered })

\* C23: exactly-once payload handling: over any sequence of push and poll
\* calls, each accepted payload is either emitted in exactly one group or
\* discarded exactly once or still buffered (once); no payload appears in
\* two emitted groups, and none is both emitted and discarded.
C23_ExactlyOnce ==
    /\ DOMAIN fate = 0..(next_msg - 1)
    /\ \A i \in DOMAIN fate : fate[i].e + fate[i].d + Buffered(i) = 1

\* a run in which one payload was emitted and another discarded
C23_Witness ==
    /\ \E i \in DOMAIN fate : fate[i].e = 1
    /\ \E i \in DOMAIN fate : fate[i].d = 1

\* C24: no error is swallowed by push: push returns Rejected (False) only
\* when the target buffer overflowed (the engine answered BUFFER_FULL); every
\* other failure the engine reports reaches the caller as an error.
C24_NoErrorSwallowed ==
    [][ (last'.op = "push" /\ last'.ret = "False") =>
          EnginePush(buffers, last'.topic, last'.ts, last'.msg).code = BUFFER_FULL ]_vars

\* the payloads the engine holds in its buffers
EngineHeld == UNION { { buffers[t][i].msg : i \in DOMAIN buffers[t] } : t \in Registered }

\* C29: memory of the foreign-function wrapper is bounded: after any sequence
\* of push and poll calls _message_refs holds exactly the payloads still
\* buffered in the engine, hence at most N * buffer_size entries; references
\* of messages discarded by an advance or by overflow eviction do not remain.
C29_RefsAreBufferedPayloads ==
    /\ DOMAIN message_refs = EngineHeld
    /\ Cardinality(DOMAIN message_refs) <= Len(topics) * buffer_size

\* The bound N * buffer_size on its own
C29_RefsBounded == Cardinality(DOMAIN message_refs) <= Len(topics) * buffer_size

\* section 4.3, step 2: the stream of minimal head timestamp, the lowest
\* topic index (construction order) among ties
IMin(bufs) ==
    LET m == SetMin({ bufs[t][1].ts : t \in Registered })
    IN  topics[SetMin({ j \in 1..Len(topics) : bufs[topics[j]][1].ts = m })]

\* the poll discarded the front of the stream IMin and nothing else
DiscardedMinimalHead ==
    /\ last'.ret = "None"
    /\ last'.dropped = << buffers[IMin(buffers)][1] >>
    /\ buffers'[IMin(buffers)] = Tail1(buffers[IMin(buffers)])
    /\ \A u \in Registered \ { IMin(buffers) } : buffers'[u] = buffers[u]

\* C26: when all streams are non-empty and the heads are not within the
\* window, poll discards the front of exactly one stream, namely the stream
\* whose head timestamp is minimal, choosing the lowest topic index among
\* ties, and leaves every other stream's buffer unchanged.
C26_AdvanceDiscardsMinimalHead ==
    [][ (last'.op = "poll" /\ AllNonEmpty(buffers) /\ ~Emittable(buffers))
            => DiscardedMinimalHead ]_vars

\* The same for at most two streams
C26_TwoStreamLemma ==
    [][ (Len(topics) <= 2 /\ last'.op = "poll" /\ AllNonEmpty(buffers)
           /\ ~Emittable(buffers))
            => DiscardedMinimalHead ]_vars

\* Whatever the number of streams, a poll that discards discards the front of
\* the stream IMin and nothing else
C26_WhichHeadLemma ==
    [][ (last'.op = "poll" /\ last'.dropped # << >>) => DiscardedMinimalHead ]_vars

\* an advance that broke a tie towards the first topic
C26_WitnessTie ==
    /\ Advanced
    /\ last.topic = Head(topics)
    /\ \E u \in Registered \ { last.topic } :
          Len(buffers[u]) > 0 /\ buffers[u][1].ts = last.dropped[1].ts

\* C27: an advance never strands a match: whenever poll discards a head,
\* there is no selection of one currently buffered message per stream that
\* includes the discarded message and has timestamp spread within the window.
C27_AdvanceStrandsNoMatch ==
    [][ (last'.op = "poll" /\ last'.dropped # << >>) =>
          ~ \E sel \in Selections(buffers) :
               /\ \A t \in Registered : sel[t] <= Len(buffers[t])
               /\ buffers[last'.topic][sel[last'.topic]] = last'.dropped[1]
               /\ WithinWindow({ buffers[t][sel[t]].ts : t \in Registered }) ]_vars

\* The same under the windows the fallback treats as finite and positive
C27_FiniteWindowLemma ==
    [][ (window_size_ms > 0 /\ last'.op = "poll" /\ last'.dropped # << >>) =>
          ~ \E sel \in Selections(buffers) :
               /\ \A t \in Registered : sel[t] <= Len(buffers[t])
               /\ buffers[last'.topic][sel[last'.topic]] = last'.dropped[1]
               /\ WithinWindow({ buffers[t][sel[t]].ts : t \in Registered }) ]_vars

\* The poll agreed with the head-set algorithm of section 4.3: same decision
\* (emit or not), same group, same buffers afterwards
AgreesWithHeadSet ==
    LET e == EnginePoll(buffers)
    IN  /\ last'.ret \in { "group", "None" }
        /\ last'.ret = "group" <=> e.result = 1
        /\ buffers' = e.buffers
        /\ last'.dropped = e.discarded
        /\ last'.ret = "group" =>
              /\ DOMAIN last'.group.messages = Registered
              /\ \A i \in 1..Len(e.members) :
                    last'.group.messages[e.members[i].key] = e.members[i].user_data
              /\ last'.group.timestamp_ns = SetMin({ e.members[i].ts : i \in 1..Len(e.members) })

\* C30: for a Synchronizer with exactly two topics the fallback's
\* median-based poll agrees with the head-set algorithm on every state: it
\* emits exactly when the heads' max minus min is within the window and
\* otherwise discards the minimal head, with the same result and the same
\* next state.
C30_TwoTopicsAgreeWithHeadSet ==
    [][ (Len(topics) = 2 /\ last'.op = "poll") => AgreesWithHeadSet ]_vars

\* The same under the windows the fallback treats as finite and positive
C30_FiniteWindowLemma ==
    [][ (Len(topics) = 2 /\ window_size_ms > 0 /\ last'.op = "poll")
            => AgreesWithHeadSet ]_vars

\* every topic with a subscription is a topic of the Synchronizer
SubscriptionsRegistered ==
    \A t \in Range(_topics) : Constructed /\ t \in Range(topics)

\* C31: in ROS2Synchronizer, for any order of add_subscription and
\* on_synchronized calls, every topic that has a subscription is a registered
\* topic of the underlying Synchronizer once a callback is registered, so a
\* message arriving on any subscribed topic is pushed without an unknown-topic
\* error and is not silently ignored.
C31_SubscribedTopicsArePushed ==
    /\ [](_callback => SubscriptionsRegistered)
    /\ [][ (last'.op = "msg_callback" /\ _callback)
              => last'.ret \notin { "KeyError", "ignored" } ]_vars

\* The Synchronizer holds the topics subscribed before it was built: the
\* registered topics are a prefix of the subscribed ones
C31_RegisteredIsPrefixLemma ==
    Constructed =>
        /\ _callback
        /\ Len(topics) <= Len(_topics)
        /\ topics = SubSeq(_topics, 1, Len(topics))

\* When every subscription was made before the Synchronizer was built, every
\* arrival on a subscribed topic is pushed
C31_SubscribeFirstLemma ==
    [][ (last'.op = "msg_callback" /\ Constructed /\ Len(topics) = Len(_topics))
            => last'.ret \in { "True", "False", "TypeError" } ]_vars

\* an arrival on a topic subscribed after the Synchronizer was built
C31_WitnessLateSubscription ==
    /\ last.op = "msg_callback" /\ last.ret = "KeyError"
    /\ _callback

\* an arrival after on_synchronized was called before the first subscription
C31_WitnessEarlyCallback ==
    /\ last.op = "msg_callback" /\ last.ret = "ignored"
    /\ _callback

=============================================================================
